---- MODULE Spec2Model ----
(***************************************************************************)
(* Model of ccs, the Claude Code provider switcher: the provider registry, *)
(* the settings merge (loadProviderConfig / unloadProviderConfig), the     *)
(* backup manager (createBackup / restoreBackup) and the config detector   *)
(* (detectCurrentConfig) of ClaudeCodeManager.                             *)
(*                                                                         *)
(* JavaScript strings are TLA+ strings; startsWith, endsWith, includes and  *)
(* the regular-expression replace are computed character by character.     *)
(***************************************************************************)
EXTENDS Integers, Sequences, FiniteSets, TLC

\* ------------------------------------------------------------------ bounds
\* Largest value of the millisecond clock (timestamps are 0..MaxClock).
MaxClock == 1
\* Number of ClaudeCodeManager calls in one run of Spec.
MaxOps == 2
\* Number of loadProviderConfig calls among them.
MaxLoads == 1
\* Number of ClaudeCodeManager calls in one run of SpecBackup.
MaxBackupOps == 3
\* Number of loadProviderConfig calls in one run of SpecModels.
MaxModelOps == 1
\* Number of createBackup calls in one run of SpecList.
MaxListOps == 2
\* Number of detectCurrentConfig calls in one run of SpecDetect.
MaxDetectOps == 1
\* Number of ccs processes running at the same time in SpecRace.
MaxProcs == 2
\* Number of loadProviderConfig calls in one run of SpecAbsorb.
MaxAbsorbOps == 2
\* Number of wizard actions and CLI commands in one run of SpecWizard.
MaxWizardOps == 4

\* ------------------------------------------------------- JavaScript values
\* A value of the settings document: string | number.
JStr(s) == [type |-> "string", str |-> s, num |-> 0]
JNum(n) == [type |-> "number", str |-> "", num |-> n]

\* String.prototype.startsWith / endsWith / includes.
StartsWith(s, p) == Len(p) <= Len(s) /\ SubSeq(s, 1, Len(p)) = p
EndsWith(s, p) == Len(p) <= Len(s) /\ SubSeq(s, Len(s) - Len(p) + 1, Len(s)) = p
Includes(s, p) == \E i \in 1..(Len(s) - Len(p) + 1) : SubSeq(s, i, i + Len(p) - 1) = p

\* The result of an expression that evaluates to undefined.
Undefined == "<undefined>"

\* The object with no own keys.
EmptyObject == [k \in {} |-> JStr("")]

\* ------------------------------------------------------- provider registry
claudeProvider ==
  [ id |-> "claude",
    regions |-> << [id |-> "global", baseUrl |-> "https://api.anthropic.com"] >>,
    models |-> << "claude-opus-4-5-20251120", "claude-sonnet-4-20250514",
                  "claude-haiku-3-5-20250620", "claude-3-5-sonnet-20241022",
                  "claude-3-opus-20240229", "claude-3-sonnet-20240229",
                  "claude-3-haiku-20240307" >> ]

zhipuProvider ==
  [ id |-> "zhipu",
    regions |-> << [id |-> "global", baseUrl |-> "https://api.z.ai/api/anthropic"],
                   [id |-> "china", baseUrl |-> "https://open.bigmodel.cn/api/anthropic"] >>,
    models |-> << "glm-5" >> ]

minimaxProvider ==
  [ id |-> "minimax",
    regions |-> << [id |-> "global", baseUrl |-> "https://api.minimax.io/anthropic"],
                   [id |-> "china", baseUrl |-> "https://api.minimaxi.com/anthropic"] >>,
    models |-> << "MiniMax-M2.5" >> ]

kimiProvider ==
  [ id |-> "kimi",
    regions |-> << [id |-> "global", baseUrl |-> "https://api.moonshot.ai/anthropic"] >>,
    models |-> << "kimi-k2.5", "kimi-k2-thinking-turbo", "kimi-k2-turbo-preview",
                  "kimi-k2-0905-preview" >> ]

providers == << claudeProvider, zhipuProvider, minimaxProvider, kimiProvider >>

\* Variant of getEnvOverrides in which kimi also sets a key that is not in
\* MANAGED_ENV_KEYS.
getEnvOverrides_unmanagedKey(provider, model) ==
  CASE provider.id = "claude" ->
         [k \in {"ANTHROPIC_MODEL"} |-> JStr(model)]
    [] provider.id = "zhipu" ->
         [k \in {} |-> JStr("")]
    [] provider.id = "minimax" ->
         [k \in {"ANTHROPIC_MODEL", "ANTHROPIC_SMALL_FAST_MODEL",
                 "ANTHROPIC_DEFAULT_SONNET_MODEL", "ANTHROPIC_DEFAULT_OPUS_MODEL",
                 "ANTHROPIC_DEFAULT_HAIKU_MODEL"} |-> JStr(model)]
    [] provider.id = "kimi" ->
         [k \in {"ANTHROPIC_MODEL", "ANTHROPIC_DEFAULT_SONNET_MODEL",
                 "ANTHROPIC_DEFAULT_OPUS_MODEL", "ANTHROPIC_DEFAULT_HAIKU_MODEL",
                 "CLAUDE_CODE_SUBAGENT_MODEL", "ANTHROPIC_REASONING_MODEL"} |-> JStr(model)]

\* Provider.getEnvOverrides(model) of each registered provider.
getEnvOverrides(provider, model) ==
  CASE provider.id = "claude" ->
         [k \in {"ANTHROPIC_MODEL"} |-> JStr(model)]
    [] provider.id = "zhipu" ->
         EmptyObject
    [] provider.id = "minimax" ->
         [k \in {"ANTHROPIC_MODEL", "ANTHROPIC_SMALL_FAST_MODEL",
                 "ANTHROPIC_DEFAULT_SONNET_MODEL", "ANTHROPIC_DEFAULT_OPUS_MODEL",
                 "ANTHROPIC_DEFAULT_HAIKU_MODEL"} |-> JStr(model)]
    [] provider.id = "kimi" ->
         [k \in {"ANTHROPIC_MODEL", "ANTHROPIC_DEFAULT_SONNET_MODEL",
                 "ANTHROPIC_DEFAULT_OPUS_MODEL", "ANTHROPIC_DEFAULT_HAIKU_MODEL",
                 "CLAUDE_CODE_SUBAGENT_MODEL"} |-> JStr(model)]

\* Array.prototype.find, given the callback's result for each element in
\* order: the index of the first element it accepts, 0 when there is none.
FindIndex(hits) ==
  IF \E i \in 1..Len(hits) : hits[i]
    THEN CHOOSE i \in 1..Len(hits) : hits[i] /\ \A j \in 1..(i - 1) : ~hits[j]
    ELSE 0

\* r.baseUrl.replace(/\/anthropic$/, '')
StripAnthropicSuffix(url) ==
  IF EndsWith(url, "/anthropic") THEN SubSeq(url, 1, Len(url) - Len("/anthropic")) ELSE url

\* getProvider: index into providers, 0 for undefined.
getProvider(id) ==
  FindIndex([i \in 1..Len(providers) |-> providers[i].id = id])

\* detectProviderByBaseUrl: index into providers, 0 for undefined.
detectProviderByBaseUrl(baseUrl) ==
  LET AnyRegion(p) == \E i \in 1..Len(p.regions) :
                    StartsWith(baseUrl, StripAnthropicSuffix(p.regions[i].baseUrl))
  IN FindIndex([i \in 1..Len(providers) |-> AnyRegion(providers[i])])

\* -------------------------------------------------------- managed env keys
MANAGED_ENV_KEYS ==
  { "ANTHROPIC_AUTH_TOKEN", "ANTHROPIC_BASE_URL", "API_TIMEOUT_MS",
    "CLAUDE_CODE_DISABLE_NONESSENTIAL_TRAFFIC", "ANTHROPIC_MODEL",
    "ANTHROPIC_SMALL_FAST_MODEL", "ANTHROPIC_DEFAULT_SONNET_MODEL",
    "ANTHROPIC_DEFAULT_OPUS_MODEL", "ANTHROPIC_DEFAULT_HAIKU_MODEL",
    "CLAUDE_CODE_SUBAGENT_MODEL" }

\* ------------------------------------------------------ settings documents
\* ClaudeSettings: { env?: Record<string, string | number>; [key]: unknown }.
\* hasEnv/hasModel say whether the key is present; rest holds every other
\* top-level key.
NewDoc(hasEnv, env, hasModel, model, rest) ==
  [hasEnv |-> hasEnv, env |-> env, hasModel |-> hasModel, model |-> model, rest |-> rest]

\* {}
EmptyDoc == NewDoc(FALSE, EmptyObject, FALSE, JStr(""), EmptyObject)

\* JavaScript truthiness of a string | number value.
Truthy(v) == IF v.type = "string" THEN v.str # "" ELSE v.num # 0

\* A file on disk: absent, or some text. Text that JSON.parse accepts is the
\* document it denotes together with its layout: "indent2" is what
\* JSON.stringify(doc, null, 2) prints, "user" any other layout of the same
\* document. Text that JSON.parse rejects has no document.
NoFile == [exists |-> FALSE, parseable |-> FALSE, layout |-> "none", doc |-> EmptyDoc]
Unparseable == [exists |-> TRUE, parseable |-> FALSE, layout |-> "user", doc |-> EmptyDoc]
UserFile(doc) == [exists |-> TRUE, parseable |-> TRUE, layout |-> "user", doc |-> doc]

\* JSON.stringify(settings, null, 2) written to a file.
Stringify(doc) == [exists |-> TRUE, parseable |-> TRUE, layout |-> "indent2", doc |-> doc]

\* getSettings: the parsed settings file, {} when absent or unparseable.
getSettings(f) == IF f.exists /\ f.parseable THEN f.doc ELSE EmptyDoc

\* saveSettings: the settings file after writing the document.
saveSettings(settings) == Stringify(settings)

\* ------------------------------------------------------------ merge engine
\* Variant of cleanedEnv without the MANAGED_ENV_KEYS test.
cleanedEnv_keepManaged(existingEnv) == existingEnv

\* The loop that copies every key not in MANAGED_ENV_KEYS.
cleanedEnv(existingEnv) ==
  [k \in (DOMAIN existingEnv) \ MANAGED_ENV_KEYS |-> existingEnv[k]]

\* The object literal { ...cleanedEnv, ANTHROPIC_AUTH_TOKEN: ..., ... }.
baseEnv(cleaned, apiKey, region) ==
  [k \in {"ANTHROPIC_AUTH_TOKEN", "ANTHROPIC_BASE_URL", "API_TIMEOUT_MS",
          "CLAUDE_CODE_DISABLE_NONESSENTIAL_TRAFFIC"} |->
     CASE k = "ANTHROPIC_AUTH_TOKEN" -> JStr(apiKey)
       [] k = "ANTHROPIC_BASE_URL" -> JStr(region.baseUrl)
       [] k = "API_TIMEOUT_MS" -> JStr("3000000")
       [] k = "CLAUDE_CODE_DISABLE_NONESSENTIAL_TRAFFIC" -> JNum(1)]
  @@ cleaned

\* Variant of mapModelToSetting without the providerId === 'claude' test.
mapModelToSetting_aliasAll(modelId, providerId) ==
  IF Includes(modelId, "opus") THEN "opus"
  ELSE IF Includes(modelId, "sonnet") THEN "sonnet"
  ELSE IF Includes(modelId, "haiku") THEN "haiku"
  ELSE modelId

\* Variant of mapModelToSetting that tests sonnet before opus.
mapModelToSetting_sonnetFirst(modelId, providerId) ==
  IF providerId = "claude"
    THEN IF Includes(modelId, "sonnet") THEN "sonnet"
         ELSE IF Includes(modelId, "opus") THEN "opus"
         ELSE IF Includes(modelId, "haiku") THEN "haiku"
         ELSE modelId
    ELSE modelId

\* mapModelToSetting
mapModelToSetting(modelId, providerId) ==
  IF providerId = "claude"
    THEN IF Includes(modelId, "opus") THEN "opus"
         ELSE IF Includes(modelId, "sonnet") THEN "sonnet"
         ELSE IF Includes(modelId, "haiku") THEN "haiku"
         ELSE modelId
    ELSE modelId

\* Variant of withEnvAndModel without the spread of settings.
withEnvAndModel_noSpread(settings, newEnv, modelSetting) ==
  NewDoc(TRUE, newEnv, TRUE, JStr(modelSetting), EmptyObject)

\* Variant of withEnvAndModel that keeps a model the document already has
\* (model: settings.model || modelSetting).
withEnvAndModel_keepModel(settings, newEnv, modelSetting) ==
  NewDoc(TRUE, newEnv, TRUE,
         IF settings.hasModel /\ Truthy(settings.model) THEN settings.model
         ELSE JStr(modelSetting),
         settings.rest)

\* { ...settings, env: newEnv, model: modelSetting }
withEnvAndModel(settings, newEnv, modelSetting) ==
  NewDoc(TRUE, newEnv, TRUE, JStr(modelSetting), settings.rest)

\* provider.regions.find(r => r.id === regionId): index, 0 for undefined.
findRegion(provider, regionId) ==
  FindIndex([i \in 1..Len(provider.regions) |-> provider.regions[i].id = regionId])

\* The document loadProviderConfig saves, for a region of the provider.
applyDoc(provider, region, modelId, apiKey, settings) ==
  LET existingEnv == IF settings.hasEnv THEN settings.env ELSE EmptyObject
      newEnv == getEnvOverrides(provider, modelId)
                  @@ baseEnv(cleanedEnv(existingEnv), apiKey, region)
  IN withEnvAndModel(settings, newEnv, mapModelToSetting(modelId, provider.id))

\* !settings.env && !settings.model
nothingToUnload(settings) ==
  ~settings.hasEnv /\ ~(settings.hasModel /\ Truthy(settings.model))

\* Variant of unloadDoc without the Object.keys(cleanedEnv).length > 0 test.
unloadDoc_alwaysEnv(settings) ==
  NewDoc(TRUE, IF settings.hasEnv THEN cleanedEnv(settings.env) ELSE EmptyObject,
         FALSE, JStr(""), EmptyObject)

\* The document unloadProviderConfig saves.
unloadDoc(settings) ==
  LET cleaned == IF settings.hasEnv THEN cleanedEnv(settings.env) ELSE EmptyObject
  IN IF DOMAIN cleaned # {}
       THEN NewDoc(TRUE, cleaned, FALSE, JStr(""), EmptyObject)
       ELSE EmptyDoc

\* Variant of loadedSettingsFile in which getSettings has no try/catch: the
\* JSON.parse error of an unparseable file ends the call before saveSettings.
loadedSettingsFile_parseThrows(f, provider, regionId, modelId, apiKey) ==
  LET idx == findRegion(provider, regionId)
  IN IF idx = 0 \/ (f.exists /\ ~f.parseable)
       THEN f
       ELSE saveSettings(applyDoc(provider, provider.regions[idx], modelId, apiKey,
                                  getSettings(f)))

\* Variant of loadedSettingsFile that falls back to the provider's first region
\* (region = find(...) || provider.regions[0]) and saves before it throws.
loadedSettingsFile_fallbackRegion(f, provider, regionId, modelId, apiKey) ==
  LET idx == findRegion(provider, regionId)
      region == IF idx = 0 THEN provider.regions[1] ELSE provider.regions[idx]
  IN saveSettings(applyDoc(provider, region, modelId, apiKey, getSettings(f)))

\* The settings file after loadProviderConfig: untouched when the region id
\* is unknown (the throw precedes getSettings and saveSettings).
loadedSettingsFile(f, provider, regionId, modelId, apiKey) ==
  LET idx == findRegion(provider, regionId)
  IN IF idx = 0
       THEN f
       ELSE saveSettings(applyDoc(provider, provider.regions[idx], modelId, apiKey,
                                  getSettings(f)))

\* Variant of unloadedSettingsFile without the early return.
unloadedSettingsFile_alwaysSave(f) == saveSettings(unloadDoc(getSettings(f)))

\* The settings file after unloadProviderConfig.
unloadedSettingsFile(f) ==
  IF nothingToUnload(getSettings(f)) THEN f ELSE saveSettings(unloadDoc(getSettings(f)))

\* ---------------------------------------------------------- backup manager
\* Variant of createBackup that writes an empty file, not '{}', when there is
\* no settings file.
createBackup_emptyFile(dir, f, t) ==
  [p \in (DOMAIN dir) \cup {t} |->
     IF p = t THEN (IF f.exists THEN f ELSE Unparseable) ELSE dir[p]]

\* createBackup: the backup directory after the call at clock value t. The
\* file name is settings-<timestamp>.json, so the timestamp is the path.
createBackup(dir, f, t) ==
  [p \in (DOMAIN dir) \cup {t} |->
     IF p = t THEN (IF f.exists THEN f ELSE Stringify(EmptyDoc)) ELSE dir[p]]

\* The wall-clock time at clock value 0, in milliseconds within the hour
\* 2026-02-15T14: 14:30:59.999, so that the next millisecond carries into the
\* seconds and the minutes.
Epoch == 30 * 60000 + 59 * 1000 + 999

\* Decimal digits, zero-padded to two and three places.
Digit(n) == SubSeq("0123456789", n + 1, n + 1)
Pad2(n) == Digit(n \div 10) \o Digit(n % 10)
Pad3(n) == Digit(n \div 100) \o Pad2(n % 100)

\* new Date().toISOString() at clock value t.
toISOString(t) ==
  LET ms == Epoch + t
  IN "2026-02-15T14:" \o Pad2((ms \div 60000) % 60) \o ":" \o Pad2((ms \div 1000) % 60)
       \o "." \o Pad3(ms % 1000) \o "Z"

\* .replace(/[:.]/g, '-')
RECURSIVE Dashed(_)
Dashed(s) ==
  IF Len(s) = 0 THEN ""
  ELSE (IF SubSeq(s, 1, 1) \in {":", "."} THEN "-" ELSE SubSeq(s, 1, 1))
         \o Dashed(SubSeq(s, 2, Len(s)))

\* The file name createBackup writes at clock value t.
BackupName(t) == "settings-" \o Dashed(toISOString(t)) \o ".json"

\* The UTF-16 code units of the characters file names are made of, ascending.
CodeUnits == "-.0123456789:TZ_abcdefghijklmnopqrstuvwxyz"
CodeUnit(c) == CHOOSE i \in 1..Len(CodeUnits) : SubSeq(CodeUnits, i, i) = c

\* a < b as Array.prototype.sort() without a comparator orders strings.
Less(a, b) ==
  LET n == IF Len(a) < Len(b) THEN Len(a) ELSE Len(b)
      diff == {i \in 1..n : SubSeq(a, i, i) # SubSeq(b, i, i)}
  IN IF diff = {} THEN Len(a) < Len(b)
     ELSE LET i == CHOOSE j \in diff : \A k \in diff : j <= k
          IN CodeUnit(SubSeq(a, i, i)) < CodeUnit(SubSeq(b, i, i))

\* .sort() of a set of distinct names.
RECURSIVE SortAsc(_)
SortAsc(names) ==
  IF names = {} THEN << >>
  ELSE LET m == CHOOSE x \in names : \A y \in names \ {x} : Less(x, y)
       IN << m >> \o SortAsc(names \ {m})

\* .reverse()
Reverse(seq) == [i \in 1..Len(seq) |-> seq[Len(seq) + 1 - i]]

\* Variant of listBackups without .reverse().
listBackups_noReverse(dir, strayNames) ==
  LET names == {BackupName(t) : t \in DOMAIN dir} \cup strayNames
  IN SortAsc({f \in names : StartsWith(f, "settings-") /\ EndsWith(f, ".json")})

\* listBackups: the name of each BackupEntry, in the order returned. The
\* directory holds the files createBackup wrote and the stray files.
listBackups(dir, strayNames) ==
  LET names == {BackupName(t) : t \in DOMAIN dir} \cup strayNames
  IN Reverse(SortAsc({f \in names : StartsWith(f, "settings-") /\ EndsWith(f, ".json")}))

\* The characters i..j of s are decimal digits.
IsDigits(s, i, j) ==
  j <= Len(s) /\ \A k \in i..j : \E n \in 0..9 : SubSeq(s, k, k) = Digit(n)

\* The number the digits i..j of s denote.
RECURSIVE ToNumber(_, _, _)
ToNumber(s, i, j) ==
  IF j < i THEN 0
  ELSE 10 * ToNumber(s, i, j - 1) + (CHOOSE n \in 0..9 : SubSeq(s, j, j) = Digit(n))

\* f.replace(x, '') for a string x: the first occurrence removed.
RemoveFirst(s, x) ==
  IF Includes(s, x)
    THEN LET i == CHOOSE j \in 1..(Len(s) - Len(x) + 1) :
                    /\ SubSeq(s, j, j + Len(x) - 1) = x
                    /\ \A k \in 1..(j - 1) : SubSeq(s, k, k + Len(x) - 1) # x
         IN SubSeq(s, 1, i - 1) \o SubSeq(s, i + Len(x), Len(s))
    ELSE s

\* s starts with (\d{4})-(\d{2})-(\d{2})T(\d{2})<sep>(\d{2})<sep>(\d{2}).
HasDateTimePrefix(s, sep) ==
  /\ Len(s) >= 19
  /\ IsDigits(s, 1, 4) /\ SubSeq(s, 5, 5) = "-" /\ IsDigits(s, 6, 7)
  /\ SubSeq(s, 8, 8) = "-" /\ IsDigits(s, 9, 10) /\ SubSeq(s, 11, 11) = "T"
  /\ IsDigits(s, 12, 13) /\ SubSeq(s, 14, 14) = sep /\ IsDigits(s, 15, 16)
  /\ SubSeq(s, 17, 17) = sep /\ IsDigits(s, 18, 19)

\* .replace(/^(\d{4})-(\d{2})-(\d{2})T(\d{2})-(\d{2})-(\d{2})/, '$1-$2-$3T$4:$5:$6')
RestoreColons(s) ==
  IF HasDateTimePrefix(s, "-")
    THEN SubSeq(s, 1, 13) \o ":" \o SubSeq(s, 15, 16) \o ":" \o SubSeq(s, 18, Len(s))
    ELSE s

\* A Date: valid with a time in milliseconds within the hour 2026-02-15T14,
\* or Invalid Date.
InvalidDate == [valid |-> FALSE, time |-> 0]
ValidDate(time) == [valid |-> TRUE, time |-> time]

\* new Date(s) on Node for the strings listBackups builds. A string with the
\* prefix YYYY-MM-DDTHH:mm:ss is parsed as a date-time string; what follows
\* the seconds must be nothing, Z, or .sss with an optional Z, otherwise the
\* result is Invalid Date (V8 does not fall back to its legacy parser once
\* it has read the T). Other strings here hold no date: Invalid Date.
NewDate(s) ==
  IF ~HasDateTimePrefix(s, ":") \/ SubSeq(s, 1, 14) # "2026-02-15T14:"
    THEN InvalidDate
  ELSE LET seconds == 60 * ToNumber(s, 15, 16) + ToNumber(s, 18, 19)
           tail == SubSeq(s, 20, Len(s))
       IN IF tail \in {"", "Z"} THEN ValidDate(1000 * seconds)
          ELSE IF Len(tail) \in {4, 5} /\ SubSeq(tail, 1, 1) = "." /\ IsDigits(tail, 2, 4)
                    /\ SubSeq(tail, 5, Len(tail)) \in {"", "Z"}
            THEN ValidDate(1000 * seconds + ToNumber(tail, 2, 4))
          ELSE InvalidDate

\* The date of the BackupEntry listBackups builds for the file name f.
backupDate(f) == NewDate(RestoreColons(RemoveFirst(RemoveFirst(f, "settings-"), ".json")))

\* restoreBackup throws when the path does not exist or JSON.parse throws.
restoreError(dir, backupPath) ==
  IF backupPath \notin DOMAIN dir THEN "Backup file not found"
  ELSE IF ~dir[backupPath].parseable THEN "SyntaxError"
  ELSE ""

\* Variant of restoredSettingsFile that copies before JSON.parse validates.
restoredSettingsFile_copyFirst(f, dir, backupPath) ==
  IF backupPath \notin DOMAIN dir THEN f ELSE dir[backupPath]

\* The settings file after restoreBackup.
restoredSettingsFile(f, dir, backupPath) ==
  IF restoreError(dir, backupPath) # "" THEN f ELSE dir[backupPath]

\* --------------------------------------------------------------- onboarding
\* ~/.claude.json: hasCompletedOnboarding and whether other keys are present.
NoConfig == [exists |-> FALSE, parseable |-> FALSE, hasCompletedOnboarding |-> FALSE,
             others |-> FALSE]

\* ensureOnboarding: the onboarding document after the call.
ensureOnboarding(c) ==
  LET config == IF c.exists /\ c.parseable
                  THEN c
                  ELSE [NoConfig EXCEPT !.exists = TRUE, !.parseable = TRUE]
  IN IF ~config.hasCompletedOnboarding
       THEN [config EXCEPT !.hasCompletedOnboarding = TRUE]
       ELSE c

\* ----------------------------------------------------------------- detector
None == [defined |-> FALSE, val |-> JStr("")]
Some(v) == [defined |-> TRUE, val |-> v]
Get(obj, key) == IF key \in DOMAIN obj THEN Some(obj[key]) ELSE None

Detection(threw, providerId, regionId, apiKey, baseUrl, model) ==
  [threw |-> threw, providerId |-> providerId, regionId |-> regionId,
   apiKey |-> apiKey, baseUrl |-> baseUrl, model |-> model]

NotDetected == Detection(FALSE, Undefined, Undefined, None, None, None)

\* Variant of detectRegionId that reports the provider's first region.
detectRegionId_firstRegion(provider, baseUrl) == provider.regions[1].id

\* provider.regions.find(r => r.baseUrl === baseUrl)?.id
detectRegionId(provider, baseUrl) ==
  LET idx == FindIndex([i \in 1..Len(provider.regions) |->
                          provider.regions[i].baseUrl = baseUrl])
  IN IF idx = 0 THEN Undefined ELSE provider.regions[idx].id

\* Variant of detectCurrentConfig that returns the empty result only when
\* both keys are missing (!baseUrl && !apiKey).
detectCurrentConfig_requireEither(f) ==
  LET settings == getSettings(f)
      env == IF settings.hasEnv THEN settings.env ELSE EmptyObject
      baseUrl == Get(env, "ANTHROPIC_BASE_URL")
      apiKey == Get(env, "ANTHROPIC_AUTH_TOKEN")
      model == Get(env, "ANTHROPIC_MODEL")
  IN IF ~(baseUrl.defined /\ Truthy(baseUrl.val)) /\ ~(apiKey.defined /\ Truthy(apiKey.val))
       THEN NotDetected
     ELSE IF ~(baseUrl.defined /\ Truthy(baseUrl.val)) \/ baseUrl.val.type # "string"
       THEN Detection(TRUE, Undefined, Undefined, None, None, None)
     ELSE LET p == detectProviderByBaseUrl(baseUrl.val.str)
          IN IF p = 0
               THEN Detection(FALSE, Undefined, Undefined, apiKey, baseUrl, model)
               ELSE Detection(FALSE, providers[p].id,
                              detectRegionId(providers[p], baseUrl.val.str),
                              apiKey, baseUrl, model)

\* detectCurrentConfig. A base URL that is a number passes the !baseUrl test
\* and then has no startsWith method: the call throws a TypeError.
detectCurrentConfig(f) ==
  LET settings == getSettings(f)
      env == IF settings.hasEnv THEN settings.env ELSE EmptyObject
      baseUrl == Get(env, "ANTHROPIC_BASE_URL")
      apiKey == Get(env, "ANTHROPIC_AUTH_TOKEN")
      model == Get(env, "ANTHROPIC_MODEL")
  IN IF ~(baseUrl.defined /\ Truthy(baseUrl.val)) \/ ~(apiKey.defined /\ Truthy(apiKey.val))
       THEN NotDetected
     ELSE IF baseUrl.val.type # "string"
       THEN Detection(TRUE, Undefined, Undefined, None, None, None)
     ELSE LET p == detectProviderByBaseUrl(baseUrl.val.str)
          IN IF p = 0
               THEN Detection(FALSE, Undefined, Undefined, apiKey, baseUrl, model)
               ELSE Detection(FALSE, providers[p].id,
                              detectRegionId(providers[p], baseUrl.val.str),
                              apiKey, baseUrl, model)

\* ------------------------------------------------------------- local config
\* The AppConfig that ConfigManager.load returns when there is no config.yaml:
\* { lang: 'en_US' }. An optional field that is not set is Undefined.
DefaultConfig ==
  [lang |-> "en_US", provider |-> Undefined, region |-> Undefined, model |-> Undefined,
   api_key |-> Undefined]

\* ConfigManager.update: this.config = { ...this.config, ...updates }, which
\* save() then writes to config.yaml.
update(config, updates) ==
  [k \in DOMAIN config |-> IF k \in DOMAIN updates THEN updates[k] ELSE config[k]]

\* !value for an optional string field: undefined or the empty string.
Unset(value) == value = Undefined \/ value = ""

\* String.prototype.trim on a string padded with spaces.
RECURSIVE Trim(_)
Trim(s) ==
  IF Len(s) = 0 THEN s
  ELSE IF SubSeq(s, 1, 1) = " " THEN Trim(SubSeq(s, 2, Len(s)))
  ELSE IF SubSeq(s, Len(s), Len(s)) = " " THEN Trim(SubSeq(s, 1, Len(s) - 1))
  ELSE s

\* ------------------------------------------------------ credential validation
\* What fetch does with the validation request: it resolves with a response
\* of some HTTP status, the 15 s timer aborts it, or it rejects.
Response(kind, status) == [kind |-> kind, status |-> status]
NoResponse == Response("none", 0)
Responses ==
  { Response("http", status) : status \in {200, 401, 403, 500} }
    \cup { Response("abort", 0), Response("error", 0) }

ValidationResult(valid, error) == [valid |-> valid, error |-> error]

\* Variant of validateApiKey that treats only 401 as a rejected key.
validateApiKey_only401(response) ==
  IF response.kind = "http"
    THEN IF response.status = 401 THEN ValidationResult(FALSE, "invalid_api_key")
         ELSE IF response.status \in 200..299 THEN ValidationResult(TRUE, Undefined)
         ELSE ValidationResult(FALSE, "unknown_error")
    ELSE ValidationResult(FALSE, "network_error")

\* validateApiKey, as a function of what fetch did with the request built
\* from apiKey, provider and regionId. The catch block returns network_error
\* for an abort and for any other rejection.
validateApiKey(response) ==
  IF response.kind = "http"
    THEN IF response.status \in {401, 403} THEN ValidationResult(FALSE, "invalid_api_key")
         ELSE IF response.status \in 200..299 THEN ValidationResult(TRUE, Undefined)
         ELSE ValidationResult(FALSE, "unknown_error")
    ELSE ValidationResult(FALSE, "network_error")

\* ------------------------------------------------------------------- wizard
\* A prompt that is not shown has no answer.
NoAnswer == ""

\* Answers to the provider prompt, the region prompt and the model prompt of
\* configProvider; a provider with one region or one model gets no prompt
\* for it, and 'back' ends the dialogue. The providers answered with are one
\* with two regions and one model and one with one region and four models.
ProviderAnswers == {zhipuProvider.id, kimiProvider.id, "back"}

RegionAnswers(providerId) ==
  IF providerId = "back" \/ Len(providers[getProvider(providerId)].regions) = 1
    THEN {NoAnswer}
    ELSE LET regions == providers[getProvider(providerId)].regions
         IN { regions[i].id : i \in 1..Len(regions) } \cup {"back"}

ModelAnswers(providerId, regionAnswer) ==
  IF providerId = "back" \/ regionAnswer = "back"
       \/ Len(providers[getProvider(providerId)].models) = 1
    THEN {NoAnswer}
    ELSE LET models == providers[getProvider(providerId)].models
         IN { models[i] : i \in 1..Len(models) } \cup {"back"}

\* Variant of configProvider that saves the provider as soon as it is chosen.
configProvider_saveEarly(config, providerId, regionAnswer, modelAnswer) ==
  IF providerId = "back" THEN config
  ELSE LET provider == providers[getProvider(providerId)]
           regionId == IF Len(provider.regions) = 1 THEN provider.regions[1].id
                       ELSE regionAnswer
           modelId == IF Len(provider.models) = 1 THEN provider.models[1] ELSE modelAnswer
       IN IF regionId = "back" \/ modelId = "back"
            THEN update(config, [provider |-> providerId])
            ELSE update(config, [provider |-> providerId, region |-> regionId,
                                 model |-> modelId])

\* The local config after Wizard.configProvider with the given answers.
configProvider(config, providerId, regionAnswer, modelAnswer) ==
  IF providerId = "back" THEN config
  ELSE LET provider == providers[getProvider(providerId)]
           regionId == IF Len(provider.regions) = 1 THEN provider.regions[1].id
                       ELSE regionAnswer
           modelId == IF Len(provider.models) = 1 THEN provider.models[1] ELSE modelAnswer
       IN IF regionId = "back" \/ modelId = "back"
            THEN config
            ELSE update(config, [provider |-> providerId, region |-> regionId,
                                 model |-> modelId])

\* configApiKey asks for a key only when the local config has a provider.
asksForKey(config) == ~Unset(config.provider)

\* The local config after Wizard.configApiKey, given the key typed at the
\* prompt and what fetch did with the validation request. A provider id
\* that is not registered makes the method throw before any update.
configApiKey(config, input, response) ==
  IF ~asksForKey(config) \/ getProvider(config.provider) = 0 THEN config
  ELSE IF ~validateApiKey(response).valid
            /\ validateApiKey(response).error = "invalid_api_key"
    THEN config
  ELSE update(config, [api_key |-> Trim(input)])

\* Variant of missingConfig that does not look at api_key.
missingConfig_noApiKey(cfg) ==
  Unset(cfg.provider) \/ Unset(cfg.region) \/ Unset(cfg.model)

\* applyConfig: !cfg.provider || !cfg.api_key || !cfg.region || !cfg.model
missingConfig(cfg) ==
  Unset(cfg.provider) \/ Unset(cfg.api_key) \/ Unset(cfg.region) \/ Unset(cfg.model)

\* ------------------------------------------------------------ state machine
VARIABLES
  settingsFile,   \* ~/.claude/settings.json
  configFile,     \* ~/.claude.json
  backupDir,      \* ~/.ccs/backups: timestamp of the file name -> file
  now,            \* the clock new Date() reads, in milliseconds
  initial,        \* the settings file the run started from
  taken,          \* backup path -> the settings files createBackup copied there
  last,           \* the most recent call and its outcome
  prev,           \* the call before it
  mergeOnly,      \* every call so far was loadProviderConfig or unloadProviderConfig
  nops,           \* calls made
  nloads,         \* loadProviderConfig calls made
  strays,         \* names of the files in ~/.ccs/backups that createBackup did not write
  listed,         \* the most recent listBackups call: what it found and returned
  localConfig,    \* ConfigManager.config, saved as ~/.cchelper/config.yaml
  validation,     \* the most recent configApiKey call: its prompt and response
  procs           \* the ccs processes running at the same time, each at a step

vars == << settingsFile, configFile, backupDir, now, initial, taken, last, prev,
           mergeOnly, nops, nloads, strays, listed, localConfig, validation, procs >>

\* Inputs of loadProviderConfig.
RegionIds == {"global", "china"}
ModelIds == {"claude-opus-4-5-20251120", "kimi-k2.5"}
ApiKeys == {"sk-test", ""}

\* Settings documents a user may have before the first call.
RichDoc ==
  NewDoc(TRUE,
         [k \in {"HTTP_PROXY", "ANTHROPIC_AUTH_TOKEN", "ANTHROPIC_BASE_URL",
                 "ANTHROPIC_MODEL", "CLAUDE_CODE_SUBAGENT_MODEL", "API_TIMEOUT_MS"} |->
            CASE k = "HTTP_PROXY" -> JStr("http://proxy:8080")
              [] k = "ANTHROPIC_AUTH_TOKEN" -> JStr("old-key")
              [] k = "ANTHROPIC_BASE_URL" -> JStr("https://old.example/anthropic")
              [] k = "ANTHROPIC_MODEL" -> JStr("old-model")
              [] k = "CLAUDE_CODE_SUBAGENT_MODEL" -> JStr("old-model")
              [] k = "API_TIMEOUT_MS" -> JNum(5000)],
         TRUE, JStr("old-model"),
         [k \in {"theme"} |-> JStr("dark")])
RestOnlyDoc ==
  NewDoc(FALSE, EmptyObject, FALSE, JStr(""), [k \in {"theme"} |-> JStr("dark")])
EmptyModelDoc ==
  NewDoc(FALSE, EmptyObject, TRUE, JStr(""), EmptyObject)
ManagedOnlyDoc ==
  NewDoc(TRUE,
         [k \in {"ANTHROPIC_AUTH_TOKEN", "ANTHROPIC_BASE_URL"} |->
            IF k = "ANTHROPIC_AUTH_TOKEN" THEN JStr("old-key")
            ELSE JStr("https://api.anthropic.com/v1")],
         FALSE, JStr(""), EmptyObject)

InitialSettingsFiles ==
  { NoFile, Unparseable, UserFile(RichDoc), UserFile(RestOnlyDoc),
    UserFile(EmptyModelDoc), UserFile(ManagedOnlyDoc) }

\* A fresh installation has no ~/.claude.json; the first loadProviderConfig
\* creates it.
InitialConfigFiles == { NoConfig }

\* No path: below every timestamp.
NoPath == 0 - 1

Call(op, ok, error, pre, providerId, regionId, modelId, apiKey, path, backup, det) ==
  [op |-> op, ok |-> ok, error |-> error, pre |-> pre, providerId |-> providerId,
   regionId |-> regionId, modelId |-> modelId, apiKey |-> apiKey, path |-> path,
   backup |-> backup, det |-> det]

NoCall == Call("none", TRUE, "", NoFile, "", "", "", "", NoPath, NoPath, NotDetected)

\* No configApiKey call yet.
NoValidation ==
  [asked |-> FALSE, entered |-> NoAnswer, response |-> NoResponse,
   result |-> ValidationResult(FALSE, Undefined), before |-> Undefined]

\* No listBackups call yet.
NoListing ==
  [called |-> FALSE, dir |-> [p \in {} |-> NoFile], strays |-> {}, entries |-> << >>,
   dates |-> << >>]

\* The ccs processes that may run at the same time, and one that has not
\* started its command.
ProcIds == 1..MaxProcs
Idle == [pc |-> "idle", op |-> "none", providerId |-> "", settings |-> EmptyDoc]

\* The state before the first call: one of the settings files, and a backup
\* directory that holds one of the sets of stray files.
InitFrom(settingsFiles, straySets) ==
  /\ settingsFile \in settingsFiles
  /\ strays \in straySets
  /\ listed = NoListing
  /\ localConfig = DefaultConfig
  /\ validation = NoValidation
  /\ procs = [p \in ProcIds |-> Idle]
  /\ configFile \in InitialConfigFiles
  /\ backupDir = [p \in {} |-> NoFile]
  /\ now = 0
  /\ initial = settingsFile
  /\ taken = [p \in {} |-> {}]
  /\ last = NoCall
  /\ prev = NoCall
  /\ mergeOnly = TRUE
  /\ nops = 0
  /\ nloads = 0

Init == InitFrom(InitialSettingsFiles, {{}})

\* The ghost record of what createBackup copied to the path it returned.
Record(t) ==
  taken' = [p \in (DOMAIN taken) \cup {t} |->
              IF p = t
                THEN (IF t \in DOMAIN taken THEN taken[t] ELSE {}) \cup {settingsFile}
                ELSE taken[p]]

\* One more call, of a run that makes at most limit calls.
Step(call, limit) ==
  /\ nops < limit
  /\ nops' = nops + 1
  /\ prev' = last
  /\ last' = call
  /\ mergeOnly' = (mergeOnly /\ call.op \in {"load", "unload"})
  /\ initial' = initial
  /\ UNCHANGED << strays, procs >>

\* Time passes between calls.
Tick(limit) ==
  /\ nops < limit
  /\ now < MaxClock
  /\ now' = now + 1
  /\ UNCHANGED << settingsFile, configFile, backupDir, initial, taken, last, prev,
                  mergeOnly, nops, nloads, strays, listed, localConfig, validation,
                  procs >>

CreateBackup(limit) ==
  /\ backupDir' = createBackup(backupDir, settingsFile, now)
  /\ Record(now)
  /\ Step(Call("createBackup", TRUE, "", settingsFile, "", "", "", "", now, now,
               NotDetected), limit)
  /\ UNCHANGED << settingsFile, configFile, now, nloads, listed,
                  localConfig, validation >>

RestoreBackup(backupPath, limit) ==
  /\ settingsFile' = restoredSettingsFile(settingsFile, backupDir, backupPath)
  /\ Step(Call("restore", restoreError(backupDir, backupPath) = "",
               restoreError(backupDir, backupPath), settingsFile, "", "", "", "",
               backupPath, NoPath, NotDetected), limit)
  /\ UNCHANGED << configFile, backupDir, now, taken, nloads, listed,
                  localConfig, validation >>

LoadProviderConfig(provider, regionId, modelId, apiKey, limit) ==
  /\ nloads' = nloads + 1
  /\ backupDir' = createBackup(backupDir, settingsFile, now)
  /\ Record(now)
  /\ configFile' = ensureOnboarding(configFile)
  /\ settingsFile' = loadedSettingsFile(settingsFile, provider, regionId, modelId, apiKey)
  /\ Step(Call("load", findRegion(provider, regionId) # 0,
               IF findRegion(provider, regionId) = 0 THEN "Unknown region" ELSE "",
               settingsFile, provider.id, regionId, modelId, apiKey, NoPath, now,
               NotDetected), limit)
  /\ UNCHANGED << now, listed, localConfig, validation >>

UnloadProviderConfig(limit) ==
  /\ backupDir' = createBackup(backupDir, settingsFile, now)
  /\ Record(now)
  /\ settingsFile' = unloadedSettingsFile(settingsFile)
  /\ Step(Call("unload", TRUE, "", settingsFile, "", "", "", "", NoPath, now,
               NotDetected), limit)
  /\ UNCHANGED << configFile, now, nloads, listed, localConfig, validation >>

\* Variant of DetectCurrentConfig that takes a backup first.
DetectCurrentConfig_withBackup(limit) ==
  /\ backupDir' = createBackup(backupDir, settingsFile, now)
  /\ Record(now)
  /\ Step(Call("detect", ~detectCurrentConfig(settingsFile).threw,
               IF detectCurrentConfig(settingsFile).threw THEN "TypeError" ELSE "",
               settingsFile, "", "", "", "", NoPath, NoPath,
               detectCurrentConfig(settingsFile)), limit)
  /\ UNCHANGED << settingsFile, configFile, now, nloads, listed, localConfig, validation >>

DetectCurrentConfig(limit) ==
  /\ Step(Call("detect", ~detectCurrentConfig(settingsFile).threw,
               IF detectCurrentConfig(settingsFile).threw THEN "TypeError" ELSE "",
               settingsFile, "", "", "", "", NoPath, NoPath,
               detectCurrentConfig(settingsFile)), limit)
  /\ UNCHANGED << settingsFile, configFile, backupDir, now, taken, nloads, listed,
                  localConfig, validation >>

\* Runs of at most MaxOps calls with any registered provider, any region id,
\* model id and credential of the input sets.
Next ==
  \/ Tick(MaxOps)
  \/ CreateBackup(MaxOps)
  \/ \E backupPath \in 0..MaxClock : RestoreBackup(backupPath, MaxOps)
  \/ /\ nloads < MaxLoads
     /\ \E p \in 1..Len(providers), regionId \in RegionIds, modelId \in ModelIds,
           apiKey \in ApiKeys :
          LoadProviderConfig(providers[p], regionId, modelId, apiKey, MaxOps)
  \/ UnloadProviderConfig(MaxOps)
  \/ DetectCurrentConfig(MaxOps)

Spec == Init /\ [][Next]_vars

\* Longer runs, of at most MaxBackupOps calls, with one provider and credential.
NextBackup ==
  \/ Tick(MaxBackupOps)
  \/ CreateBackup(MaxBackupOps)
  \/ \E backupPath \in 0..MaxClock : RestoreBackup(backupPath, MaxBackupOps)
  \/ \E regionId \in RegionIds :
       LoadProviderConfig(kimiProvider, regionId, "kimi-k2.5", "sk-test", MaxBackupOps)
  \/ UnloadProviderConfig(MaxBackupOps)
  \/ DetectCurrentConfig(MaxBackupOps)

SpecBackup == Init /\ [][NextBackup]_vars

\* Model ids for mapModelToSetting: the models of claudeProvider, a model of
\* another provider, and ids with several, differently cased or no family
\* names (the local config's model is any string).
AliasModelIds ==
  { claudeProvider.models[i] : i \in 1..Len(claudeProvider.models) }
    \cup { "kimi-k2.5", "sonnet-opus-mix", "haiku-sonnet-mix", "haiku-opus-mix",
           "Claude-Opus-4", "opus", "" }

\* Runs of at most MaxModelOps loadProviderConfig calls, with claude or kimi
\* and every model id of AliasModelIds.
NextModels ==
  \/ Tick(MaxModelOps)
  \/ \E provider \in {claudeProvider, kimiProvider}, modelId \in AliasModelIds :
       LoadProviderConfig(provider, "global", modelId, "sk-test", MaxModelOps)

SpecModels == Init /\ [][NextModels]_vars

\* ---------------------------------------------------------- repeated loads
\* Model id and credential of a loadProviderConfig call in SpecAbsorb.
AbsorbInputs ==
  { [modelId |-> "kimi-k2.5", apiKey |-> "sk-test"],
    [modelId |-> "claude-opus-4-5-20251120", apiKey |-> "sk-other"] }

\* Runs of at most MaxAbsorbOps loadProviderConfig calls, with any registered
\* provider and any region id, made within one millisecond.
NextAbsorb ==
  \/ \E p \in 1..Len(providers), regionId \in RegionIds, x \in AbsorbInputs :
       LoadProviderConfig(providers[p], regionId, x.modelId, x.apiKey, MaxAbsorbOps)

SpecAbsorb == Init /\ [][NextAbsorb]_vars

\* ---------------------------------------------------------------- detection
\* The base URL of every region of every registered provider.
RegisteredBaseUrls ==
  UNION { { providers[p].regions[r].baseUrl : r \in 1..Len(providers[p].regions) } :
          p \in 1..Len(providers) }

\* Values a settings file may hold under env.ANTHROPIC_BASE_URL: none, the
\* empty string, each registered base URL, URLs that only start like a
\* registered one, an unregistered URL, and a number.
BaseUrlChoices ==
  { None, Some(JStr("")), Some(JStr("https://api.anthropic.com/v1")),
    Some(JStr("https://api.minimax.io")), Some(JStr("https://old.example/anthropic")),
    Some(JNum(8080)) }
    \cup { Some(JStr(u)) : u \in RegisteredBaseUrls }
TokenChoices == { None, Some(JStr("")), Some(JStr("sk-test")) }
ModelChoices == { None, Some(JStr("kimi-k2.5")) }

\* The env object with the keys that have a value.
EnvOf(baseUrl, apiKey, model) ==
  LET value == [k \in {"ANTHROPIC_BASE_URL", "ANTHROPIC_AUTH_TOKEN", "ANTHROPIC_MODEL"} |->
                  CASE k = "ANTHROPIC_BASE_URL" -> baseUrl
                    [] k = "ANTHROPIC_AUTH_TOKEN" -> apiKey
                    [] k = "ANTHROPIC_MODEL" -> model]
  IN [k \in {x \in DOMAIN value : value[x].defined} |-> value[k].val]

\* Settings files detectCurrentConfig may find.
DetectSettingsFiles ==
  { NoFile, Unparseable, UserFile(RestOnlyDoc) }
    \cup { UserFile(NewDoc(TRUE, EnvOf(b, k, m), FALSE, JStr(""), EmptyObject)) :
             b \in BaseUrlChoices, k \in TokenChoices, m \in ModelChoices }

\* Runs of at most MaxDetectOps detectCurrentConfig calls on these files.
NextDetect ==
  \/ Tick(MaxDetectOps)
  \/ DetectCurrentConfig(MaxDetectOps)

SpecDetect == InitFrom(DetectSettingsFiles, {{}}) /\ [][NextDetect]_vars

\* ------------------------------------------------------------------ listing
\* Files a user may have put into ~/.ccs/backups.
StrayNames ==
  { "notes.txt", "settings-manual.json", "settings-2026-02-15T14-30-59-999Z.json.bak" }

\* listBackups reads the directory and changes no file.
ListBackups ==
  /\ listed' = [called |-> TRUE, dir |-> backupDir, strays |-> strays,
                 entries |-> listBackups(backupDir, strays),
                 dates |-> [i \in 1..Len(listBackups(backupDir, strays)) |->
                              backupDate(listBackups(backupDir, strays)[i])]]
  /\ UNCHANGED << settingsFile, configFile, backupDir, now, initial, taken, last, prev,
                  mergeOnly, nops, nloads, strays, localConfig, validation, procs >>

\* Runs of at most MaxListOps backup-writing calls, with listBackups at any
\* point, from a backup directory with any of the stray files.
NextList ==
  \/ Tick(MaxListOps)
  \/ CreateBackup(MaxListOps)
  \/ UnloadProviderConfig(MaxListOps)
  \/ ListBackups

SpecList == InitFrom({NoFile, UserFile(RichDoc)}, SUBSET StrayNames) /\ [][NextList]_vars

\* ------------------------------------------------------------ wizard runs
\* A wizard action or CLI command that calls no ClaudeCodeManager method.
WizardCall(op, error) ==
  Call(op, error = "", error, settingsFile, "", "", "", "", NoPath, NoPath, NotDetected)

\* Wizard.configLanguage: the language prompt and configManager.setLang.
\* Answers to the prompt: a language other than the default, and 'back'.
Languages == {"de_DE", "back"}

ConfigLanguage(language, limit) ==
  /\ localConfig' = IF language = "back" THEN localConfig
                    ELSE update(localConfig, [lang |-> language])
  /\ Step(WizardCall("configLanguage", ""), limit)
  /\ UNCHANGED << settingsFile, configFile, backupDir, now, taken, nloads, listed,
                  validation >>

\* Wizard.configProvider (also `ccs provider`).
ConfigProvider(providerId, regionAnswer, modelAnswer, limit) ==
  /\ localConfig' = configProvider(localConfig, providerId, regionAnswer, modelAnswer)
  /\ Step(WizardCall("configProvider", ""), limit)
  /\ UNCHANGED << settingsFile, configFile, backupDir, now, taken, nloads, listed,
                  validation >>

\* Keys typed at the password prompt, which accepts input whose trim() is
\* not empty.
KeyInputs == {"sk-test", " sk-new "}

\* Wizard.configApiKey (also `ccs auth`): without a provider it returns at
\* once, otherwise it prompts, validates and stores or drops the key.
ConfigApiKey(input, response, limit) ==
  /\ IF asksForKey(localConfig)
       THEN input \in KeyInputs /\ response \in Responses
       ELSE input = NoAnswer /\ response = NoResponse
  /\ localConfig' = configApiKey(localConfig, input, response)
  /\ validation' = [asked |-> asksForKey(localConfig), entered |-> input,
                     response |-> response, result |-> validateApiKey(response),
                     before |-> localConfig.api_key]
  /\ Step(WizardCall("configApiKey", ""), limit)
  /\ UNCHANGED << settingsFile, configFile, backupDir, now, taken, nloads, listed >>

\* `ccs auth revoke`: configManager.update({ api_key: undefined }).
AuthRevoke(limit) ==
  /\ localConfig' = update(localConfig, [api_key |-> Undefined])
  /\ Step(WizardCall("authRevoke", ""), limit)
  /\ UNCHANGED << settingsFile, configFile, backupDir, now, taken, nloads, listed,
                  validation >>

\* Wizard.applyConfig (also `ccs apply`): it returns at once when a field of
\* the local config is missing, and otherwise calls loadProviderConfig and
\* catches what it throws. getProvider(cfg.provider)! is undefined for an id
\* that is not registered: loadProviderConfig then throws a TypeError at
\* provider.regions, after its backup and ensureOnboarding.
ApplyConfig(limit) ==
  IF missingConfig(localConfig)
    THEN /\ Step(WizardCall("applyConfig", "missing_config"), limit)
         /\ UNCHANGED << settingsFile, configFile, backupDir, now, taken, nloads,
                         listed, localConfig, validation >>
  ELSE IF getProvider(localConfig.provider) = 0
    THEN /\ backupDir' = createBackup(backupDir, settingsFile, now)
         /\ Record(now)
         /\ configFile' = ensureOnboarding(configFile)
         /\ Step(WizardCall("applyConfig", "TypeError"), limit)
         /\ UNCHANGED << settingsFile, now, nloads, listed, localConfig, validation >>
  ELSE LoadProviderConfig(providers[getProvider(localConfig.provider)],
                          localConfig.region, localConfig.model, localConfig.api_key,
                          limit)

\* Runs of at most MaxWizardOps wizard actions and CLI commands, from the
\* default local config.
NextWizard ==
  \/ \E language \in Languages : ConfigLanguage(language, MaxWizardOps)
  \/ \E providerId \in ProviderAnswers :
       \E regionAnswer \in RegionAnswers(providerId) :
         \E modelAnswer \in ModelAnswers(providerId, regionAnswer) :
           ConfigProvider(providerId, regionAnswer, modelAnswer, MaxWizardOps)
  \/ \E input \in KeyInputs \cup {NoAnswer}, response \in Responses \cup {NoResponse} :
       ConfigApiKey(input, response, MaxWizardOps)
  \/ AuthRevoke(MaxWizardOps)
  \/ ApplyConfig(MaxWizardOps)
  \/ DetectCurrentConfig(MaxWizardOps)

SpecWizard == InitFrom({NoFile, UserFile(RichDoc)}, {{}}) /\ [][NextWizard]_vars

\* ---------------------------------------------------- concurrent processes
\* Two ccs commands started at the same time are two processes on the same
\* files. Each file-system call of loadProviderConfig and unloadProviderConfig
\* is synchronous, but nothing orders the calls of one process against those
\* of the other: a process advances one step of its method at a time.
\* The calls of the sequential runs are not made here.
Sequential == << initial, last, prev, mergeOnly, nops, nloads, strays, listed,
                 localConfig, validation >>

\* Process p starts `ccs apply` for the provider or `ccs unload`.
Invoke(p, op, provider) ==
  /\ procs[p].pc = "idle"
  /\ procs' = [procs EXCEPT ![p] = [pc |-> "backup", op |-> op,
                                    providerId |-> IF op = "load" THEN provider.id ELSE "",
                                    settings |-> EmptyDoc]]
  /\ UNCHANGED << settingsFile, configFile, backupDir, now, taken >>
  /\ UNCHANGED Sequential

\* this.createBackup(), the first statement of both methods.
BackupStep(p) ==
  /\ procs[p].pc = "backup"
  /\ backupDir' = createBackup(backupDir, settingsFile, now)
  /\ Record(now)
  /\ procs' = [procs EXCEPT ![p].pc = IF procs[p].op = "load" THEN "onboard" ELSE "read"]
  /\ UNCHANGED << settingsFile, configFile, now >>
  /\ UNCHANGED Sequential

\* this.ensureOnboarding() of loadProviderConfig; the region is the provider's
\* first, so the method does not throw.
OnboardStep(p) ==
  /\ procs[p].pc = "onboard"
  /\ configFile' = ensureOnboarding(configFile)
  /\ procs' = [procs EXCEPT ![p].pc = "read"]
  /\ UNCHANGED << settingsFile, backupDir, now, taken >>
  /\ UNCHANGED Sequential

\* const settings = this.getSettings(), and unloadProviderConfig's early return.
ReadStep(p) ==
  /\ procs[p].pc = "read"
  /\ procs' = [procs EXCEPT
                 ![p].settings = getSettings(settingsFile),
                 ![p].pc = IF procs[p].op = "unload" /\ nothingToUnload(getSettings(settingsFile))
                             THEN "done" ELSE "write"]
  /\ UNCHANGED << settingsFile, configFile, backupDir, now, taken >>
  /\ UNCHANGED Sequential

\* this.saveSettings(...) of the document computed from what the process read.
WriteStep(p) ==
  /\ procs[p].pc = "write"
  /\ settingsFile' =
       saveSettings(IF procs[p].op = "load"
                      THEN LET provider == providers[getProvider(procs[p].providerId)]
                           IN applyDoc(provider, provider.regions[1], provider.models[1],
                                       "sk-test", procs[p].settings)
                      ELSE unloadDoc(procs[p].settings))
  /\ procs' = [procs EXCEPT ![p].pc = "done"]
  /\ UNCHANGED << configFile, backupDir, now, taken >>
  /\ UNCHANGED Sequential

\* At most MaxProcs processes, each running one command.
NextRace ==
  \/ Tick(MaxOps)
  \/ \E p \in ProcIds :
       \/ \E provider \in {kimiProvider, zhipuProvider} : Invoke(p, "load", provider)
       \/ Invoke(p, "unload", kimiProvider)
       \/ BackupStep(p)
       \/ OnboardStep(p)
       \/ ReadStep(p)
       \/ WriteStep(p)

SpecRace == Init /\ [][NextRace]_vars

\* ------------------------------------------------------------------- claims
\* The document in the settings file (the file exists and parses).
IsDocument(f) == f.exists /\ f.parseable

\* The last call was a loadProviderConfig that returned normally.
Loaded == last.op = "load" /\ last.ok
LoadedProvider == providers[getProvider(last.providerId)]
LoadedRegion == LoadedProvider.regions[findRegion(LoadedProvider, last.regionId)]

\* Every key of obj outside MANAGED_ENV_KEYS is in into, with the same value.
UnmanagedKept(obj, into) ==
  \A k \in (DOMAIN obj) \ MANAGED_ENV_KEYS : k \in DOMAIN into /\ into[k] = obj[k]

\* Every key of obj is in into, with the same value.
AllKept(obj, into) ==
  \A k \in DOMAIN obj : k \in DOMAIN into /\ into[k] = obj[k]

\* C1: after loadProviderConfig(P, R, m, k), the credential, base URL, timeout
\* and traffic-flag keys hold k, R.baseUrl and the fixed defaults unless
\* P.getEnvOverrides(m) sets them, every other managed key is present exactly
\* when P.getEnvOverrides(m) sets it and then has that value, so no managed
\* key keeps a value of the previous document.
C1_ManagedKeysReplaced ==
  Loaded =>
    LET env == settingsFile.doc.env
        overrides == getEnvOverrides(LoadedProvider, last.modelId)
        Expected(K) ==
          CASE K \in DOMAIN overrides -> overrides[K]
            [] K \notin DOMAIN overrides /\ K = "ANTHROPIC_AUTH_TOKEN" -> JStr(last.apiKey)
            [] K \notin DOMAIN overrides /\ K = "ANTHROPIC_BASE_URL" ->
                 JStr(LoadedRegion.baseUrl)
            [] K \notin DOMAIN overrides /\ K = "API_TIMEOUT_MS" -> JStr("3000000")
            [] K \notin DOMAIN overrides /\ K = "CLAUDE_CODE_DISABLE_NONESSENTIAL_TRAFFIC" ->
                 JNum(1)
        Set == (DOMAIN overrides) \cup
                 {"ANTHROPIC_AUTH_TOKEN", "ANTHROPIC_BASE_URL", "API_TIMEOUT_MS",
                  "CLAUDE_CODE_DISABLE_NONESSENTIAL_TRAFFIC"}
    IN /\ IsDocument(settingsFile) /\ settingsFile.doc.hasEnv
       /\ \A K \in MANAGED_ENV_KEYS :
            IF K \in Set THEN K \in DOMAIN env /\ env[K] = Expected(K)
            ELSE K \notin DOMAIN env

\* C1 witness: zhipu (no overrides) applied to a document that held
\* ANTHROPIC_MODEL and CLAUDE_CODE_SUBAGENT_MODEL of a previous provider.
C1_Witness ==
  /\ Loaded /\ last.providerId = "zhipu" /\ last.regionId = "china"
  /\ last.pre = UserFile(RichDoc)
  /\ "ANTHROPIC_MODEL" \notin DOMAIN settingsFile.doc.env
  /\ settingsFile.doc.env["ANTHROPIC_AUTH_TOKEN"] = JStr("sk-test")
  /\ settingsFile.doc.env["API_TIMEOUT_MS"] = JStr("3000000")

\* C2: a loadProviderConfig with a region of the provider keeps every env key
\* outside the managed allowlist and every top-level key other than env and
\* model, with the value it had.
C2_UnmanagedPreserved ==
  (Loaded /\ IsDocument(last.pre)) =>
    /\ IsDocument(settingsFile)
    /\ AllKept(last.pre.doc.rest, settingsFile.doc.rest)
    /\ last.pre.doc.hasEnv =>
         settingsFile.doc.hasEnv /\ UnmanagedKept(last.pre.doc.env, settingsFile.doc.env)

\* C2 witness: the document with theme and HTTP_PROXY went through a load.
C2_Witness ==
  /\ Loaded /\ last.pre = UserFile(RichDoc) /\ last.providerId = "kimi"
  /\ settingsFile.doc.rest["theme"] = JStr("dark")
  /\ settingsFile.doc.env["HTTP_PROXY"] = JStr("http://proxy:8080")
  /\ settingsFile.doc.env["ANTHROPIC_MODEL"] = JStr(last.modelId)

\* The document a call found: the parsed settings file, {} when there was no
\* file. An unparseable file holds no document.
HeldDocument(f) == ~f.exists \/ f.parseable

\* The unmanaged part of document D is still in document N unchanged.
PassedThrough(D, N) ==
  /\ AllKept(D.rest, N.rest)
  /\ D.hasEnv => (\A k \in (DOMAIN D.env) \ MANAGED_ENV_KEYS :
                    N.hasEnv /\ k \in DOMAIN N.env /\ N.env[k] = D.env[k])

\* C3: after any sequence of loadProviderConfig and unloadProviderConfig calls
\* from a settings document D, every top-level key of D other than env and
\* model and every unmanaged env key of D is still there with its value.
C3_PassThrough ==
  (mergeOnly /\ HeldDocument(initial)) =>
    PassedThrough(getSettings(initial), getSettings(settingsFile))

\* C4: unloadProviderConfig right after a loadProviderConfig on document D
\* leaves no managed env key and no model field, and all of D's unmanaged env
\* keys and other top-level keys with their values.
C4_RoundTrip ==
  (last.op = "unload" /\ prev.op = "load" /\ prev.ok /\ HeldDocument(prev.pre)) =>
    LET N == getSettings(settingsFile)
    IN /\ ~N.hasModel
       /\ N.hasEnv => (DOMAIN N.env) \cap MANAGED_ENV_KEYS = {}
       /\ PassedThrough(getSettings(prev.pre), N)

\* C5: a successful restoreBackup(b) makes the settings file equal to b's
\* content; it reproduces the document every createBackup call that returned
\* b copied, whatever happened in between; and a second restoreBackup(b)
\* changes nothing.
C5_RestoreReproducesBackup ==
  (last.op = "restore" /\ last.ok) =>
    /\ settingsFile = backupDir[last.path]
    /\ \A D \in taken[last.path] : getSettings(settingsFile) = getSettings(D)
    /\ (prev.op = "restore" /\ prev.ok /\ prev.path = last.path) =>
         settingsFile = last.pre

\* C6: a loadProviderConfig, unloadProviderConfig or restoreBackup call that
\* changed the settings file wrote, within the call, a backup holding the
\* settings file as it was before the change ({} when there was no file).
C6_BackupBeforeChange ==
  (last.op \in {"load", "unload", "restore"} /\ settingsFile # last.pre) =>
    /\ last.backup \in DOMAIN backupDir
    /\ backupDir[last.backup] =
         (IF last.pre.exists THEN last.pre ELSE Stringify(EmptyDoc))

\* The last call was detectCurrentConfig, right after a loadProviderConfig
\* that returned normally and had found the empty document.
DetectedAfterLoadOnEmpty ==
  /\ last.op = "detect" /\ prev.op = "load" /\ prev.ok
  /\ getSettings(prev.pre) = EmptyDoc

\* C7 as stated: for any credential, detectCurrentConfig after a
\* loadProviderConfig(P, R, model, credential) on the empty document returns
\* P's id and R's id.
C7_DetectInvertsApply_AnyCredential ==
  DetectedAfterLoadOnEmpty =>
    /\ last.ok
    /\ last.det.providerId = prev.providerId
    /\ last.det.regionId = prev.regionId

\* C7 amended: the same for every non-empty credential.
C7_DetectInvertsApply ==
  (DetectedAfterLoadOnEmpty /\ prev.apiKey # "") =>
    /\ last.ok
    /\ last.det.providerId = prev.providerId
    /\ last.det.regionId = prev.regionId

\* C7 witness: minimax's second region, whose URL differs from the first by
\* one character, was applied to a missing settings file and detected.
C7_Witness ==
  /\ DetectedAfterLoadOnEmpty /\ prev.pre = NoFile
  /\ prev.providerId = "minimax" /\ prev.regionId = "china" /\ prev.apiKey = "sk-test"
  /\ last.det.providerId = "minimax" /\ last.det.regionId = "china"

\* C8: loadProviderConfig with a region id that no region of the provider has
\* throws 'Unknown region' and leaves the settings file as it was.
C8_UnknownRegionLeavesSettings ==
  (last.op = "load" /\ \A i \in 1..Len(LoadedProvider.regions) :
                         LoadedProvider.regions[i].id # last.regionId) =>
    /\ ~last.ok
    /\ last.error = "Unknown region"
    /\ settingsFile = last.pre

\* C8 witness: kimi has no region china; the call found a user's document.
C8_Witness ==
  /\ last.op = "load" /\ last.providerId = "kimi" /\ last.regionId = "china"
  /\ ~last.ok /\ last.pre = UserFile(RichDoc) /\ settingsFile = UserFile(RichDoc)

\* C9: restoreBackup of a path that does not exist, or of a file JSON.parse
\* rejects, throws and leaves the settings file as it was.
C9_FailedRestoreLeavesSettings ==
  (last.op = "restore" /\ (last.path \notin DOMAIN backupDir
                             \/ ~backupDir[last.path].parseable)) =>
    /\ ~last.ok
    /\ last.error = (IF last.path \notin DOMAIN backupDir
                       THEN "Backup file not found" ELSE "SyntaxError")
    /\ settingsFile = last.pre

\* C9 witness: the backup is unparseable and differs from the settings file.
C9_Witness ==
  /\ last.op = "restore" /\ ~last.ok /\ last.error = "SyntaxError"
  /\ backupDir[last.path] = Unparseable /\ settingsFile # Unparseable

\* C9 witness of the other case: no backup at the path.
C9_WitnessNotFound ==
  /\ last.op = "restore" /\ ~last.ok /\ last.error = "Backup file not found"
  /\ last.path \notin DOMAIN backupDir /\ backupDir # << >>

\* What C10 says of unloadProviderConfig's result N for the document D.
Unloaded(D, N) ==
  LET kept == IF D.hasEnv THEN (DOMAIN D.env) \ MANAGED_ENV_KEYS ELSE {}
  IN /\ ~N.hasModel
     /\ IF kept = {}
          THEN ~N.hasEnv
          ELSE N.hasEnv /\ DOMAIN N.env = kept /\ \A k \in kept : N.env[k] = D.env[k]

\* C10 as stated: for every settings document with an env or a model field,
\* unloadProviderConfig leaves a document without model whose env is the
\* unmanaged keys with their values, and no env when none remains.
C10_Unload_AnyModel ==
  (last.op = "unload" /\ IsDocument(last.pre)
     /\ (last.pre.doc.hasEnv \/ last.pre.doc.hasModel)) =>
    IsDocument(settingsFile) /\ Unloaded(last.pre.doc, settingsFile.doc)

\* C10 amended: the same for every settings document with an env field or a
\* non-empty model.
C10_Unload ==
  (last.op = "unload" /\ IsDocument(last.pre)
     /\ (last.pre.doc.hasEnv \/ (last.pre.doc.hasModel /\ last.pre.doc.model # JStr("")))) =>
    IsDocument(settingsFile) /\ Unloaded(last.pre.doc, settingsFile.doc)

\* C10 witness: only managed keys in env, so env is omitted.
C10_Witness ==
  /\ last.op = "unload" /\ last.pre = UserFile(ManagedOnlyDoc)
  /\ settingsFile = Stringify(EmptyDoc)

\* C11: unloadProviderConfig on a settings document with neither an env field
\* nor a model field does not write the settings file: it stays byte for byte
\* what it was (the same text, or absent).
C11_UnloadNoop ==
  (last.op = "unload" /\ ~getSettings(last.pre).hasEnv /\ ~getSettings(last.pre).hasModel) =>
    settingsFile = last.pre

\* C11 witness: the user's file with only the key theme, in the user's own
\* layout, went through unloadProviderConfig (which took its backup).
C11_Witness ==
  /\ last.op = "unload" /\ last.pre = UserFile(RestOnlyDoc)
  /\ settingsFile = UserFile(RestOnlyDoc) /\ settingsFile # Stringify(RestOnlyDoc)
  /\ last.backup \in DOMAIN backupDir

\* C12: loadProviderConfig(kimi, global, kimi-k2.5, sk-test) on the empty
\* document sets env.ANTHROPIC_BASE_URL to https://api.moonshot.ai/anthropic,
\* env.ANTHROPIC_MODEL to kimi-k2.5 and model to kimi-k2.5; and for every
\* provider other than claude the top-level model is the raw model id.
C12_KimiScenario ==
  /\ (Loaded /\ last.providerId # "claude") =>
       /\ IsDocument(settingsFile) /\ settingsFile.doc.hasModel
       /\ settingsFile.doc.model = JStr(last.modelId)
  /\ (Loaded /\ last.providerId = "kimi" /\ last.regionId = "global"
        /\ last.modelId = "kimi-k2.5" /\ last.apiKey = "sk-test"
        /\ getSettings(last.pre) = EmptyDoc) =>
       /\ Get(settingsFile.doc.env, "ANTHROPIC_BASE_URL")
            = Some(JStr("https://api.moonshot.ai/anthropic"))
       /\ Get(settingsFile.doc.env, "ANTHROPIC_MODEL") = Some(JStr("kimi-k2.5"))
       /\ settingsFile.doc.model = JStr("kimi-k2.5")

\* C12 witness: the scenario ran on a missing settings file.
C12_Witness ==
  /\ Loaded /\ last.providerId = "kimi" /\ last.regionId = "global"
  /\ last.modelId = "kimi-k2.5" /\ last.apiKey = "sk-test" /\ last.pre = NoFile
  /\ settingsFile.doc.model = JStr("kimi-k2.5")

\* C13: for provider claude, loadProviderConfig sets the top-level model to
\* opus, sonnet or haiku, the first of these (in this order) that the model
\* id contains, and to the model id itself when it contains none, while
\* env.ANTHROPIC_MODEL is the full model id.
C13_ClaudeAlias ==
  (Loaded /\ last.providerId = "claude") =>
    LET id == last.modelId
        alias == IF \E i \in 1..(Len(id) - 3) : SubSeq(id, i, i + 3) = "opus" THEN "opus"
                 ELSE IF \E i \in 1..(Len(id) - 5) : SubSeq(id, i, i + 5) = "sonnet" THEN "sonnet"
                 ELSE IF \E i \in 1..(Len(id) - 4) : SubSeq(id, i, i + 4) = "haiku" THEN "haiku"
                 ELSE id
    IN /\ IsDocument(settingsFile) /\ settingsFile.doc.hasModel
       /\ settingsFile.doc.model = JStr(alias)
       /\ Get(settingsFile.doc.env, "ANTHROPIC_MODEL") = Some(JStr(id))

\* C13 witness: an id that names sonnet before opus got the alias opus, and
\* env.ANTHROPIC_MODEL the whole id.
C13_Witness ==
  /\ Loaded /\ last.providerId = "claude" /\ last.modelId = "sonnet-opus-mix"
  /\ settingsFile.doc.model = JStr("opus")
  /\ settingsFile.doc.env["ANTHROPIC_MODEL"] = JStr("sonnet-opus-mix")

\* Process q has made its backup or read the settings file and has its write
\* of the settings file still ahead.
WritePending(q) ==
  \/ procs[q].pc = "write"
  \/ procs[q].op = "load" /\ procs[q].pc \in {"onboard", "read"}

\* C14: when two loadProviderConfig / unloadProviderConfig invocations run
\* at the same time, no invocation writes the settings file while the other
\* is between its backup or read of the settings file and its own write.
C14_NoInterleavedWrite ==
  [][\A p \in ProcIds :
       (procs[p].pc = "write" /\ procs'[p].pc = "done") =>
         \A q \in ProcIds \ {p} : ~WritePending(q)]_vars

\* The last call was restoreBackup of a path that createBackup returned.
RestoredABackup == last.op = "restore" /\ last.path \in DOMAIN taken

\* C15 as stated: whatever the settings file was when createBackup copied it
\* (absent, valid JSON or unparseable), a later restoreBackup of the returned
\* path succeeds.
C15_BackupRestorable_AnyContent ==
  RestoredABackup => last.ok

\* C15 amended: when the settings file was absent or valid JSON at each
\* createBackup that returned the path, a later restoreBackup of the path
\* succeeds and the settings file is that backup.
C15_BackupRestorable ==
  (RestoredABackup /\ \A f \in taken[last.path] : ~f.exists \/ f.parseable) =>
    /\ last.ok
    /\ settingsFile = backupDir[last.path]

\* C15 witness: the backup taken when there was no settings file was restored
\* after a call that wrote the settings file.
C15_Witness ==
  /\ RestoredABackup /\ last.ok /\ taken[last.path] = {NoFile}
  /\ last.pre # NoFile /\ settingsFile = Stringify(EmptyDoc)

\* C16: once createBackup has written a backup file, no later call changes
\* or deletes it: every file of the backup directory is still there after
\* each step, with the same content.
C16_BackupsImmutable ==
  [][\A path \in DOMAIN backupDir :
       path \in DOMAIN backupDir' /\ backupDir'[path] = backupDir[path]]_vars

\* The names of the directory listBackups read: createBackup's files and the
\* stray files.
ListedDirectory == {BackupName(t) : t \in DOMAIN listed.dir} \cup listed.strays

\* Position of a name in the returned entries.
ListedAt(name) == CHOOSE i \in 1..Len(listed.entries) : listed.entries[i] = name

\* C17: listBackups returns exactly the files of the backup directory named
\* settings-*.json, each once, by descending file name, and among the files
\* createBackup wrote a later creation time comes first.
C17_ListBackupsOrder ==
  listed.called =>
    /\ { listed.entries[i] : i \in 1..Len(listed.entries) }
         = { f \in ListedDirectory :
               /\ Len(f) >= Len("settings-") + Len(".json")
               /\ SubSeq(f, 1, Len("settings-")) = "settings-"
               /\ SubSeq(f, Len(f) - Len(".json") + 1, Len(f)) = ".json" }
    /\ \A i, j \in 1..Len(listed.entries) :
         i < j => Less(listed.entries[j], listed.entries[i])
    /\ \A t, u \in DOMAIN listed.dir :
         t > u => ListedAt(BackupName(t)) < ListedAt(BackupName(u))

\* C17 witness: two backups written a millisecond apart, across the change
\* of the minute, listed with the later one first, in a directory that also
\* holds files of other names.
C17_Witness ==
  /\ listed.called /\ DOMAIN listed.dir = {0, 1} /\ listed.strays = StrayNames
  /\ listed.entries = << "settings-manual.json", "settings-2026-02-15T14-31-00-000Z.json",
                         "settings-2026-02-15T14-30-59-999Z.json" >>

\* C18: a loadProviderConfig that fails with an unknown region writes no
\* file: the settings file, the backup directory and the onboarding document
\* are after the call what they were before it.
C18_FailedLoadWritesNothing ==
  [][(nops' = nops + 1 /\ last'.op = "load" /\ ~last'.ok) =>
       (settingsFile' = settingsFile /\ backupDir' = backupDir /\ configFile' = configFile)]_vars

\* The env object detectCurrentConfig read.
DetectedEnv ==
  IF getSettings(last.pre).hasEnv THEN getSettings(last.pre).env ELSE EmptyObject

\* C19: detectCurrentConfig returns provider, regionId, apiKey, baseUrl and
\* model all undefined whenever env.ANTHROPIC_BASE_URL or
\* env.ANTHROPIC_AUTH_TOKEN is absent, whatever the other keys hold.
C19_DetectNeedsBoth ==
  (last.op = "detect" /\ ("ANTHROPIC_BASE_URL" \notin DOMAIN DetectedEnv
                            \/ "ANTHROPIC_AUTH_TOKEN" \notin DOMAIN DetectedEnv)) =>
    /\ last.ok
    /\ last.det.providerId = Undefined /\ last.det.regionId = Undefined
    /\ ~last.det.apiKey.defined /\ ~last.det.baseUrl.defined /\ ~last.det.model.defined

\* C19 witness: a registered base URL and a model but no credential.
C19_Witness ==
  /\ last.op = "detect" /\ last.det = NotDetected
  /\ DOMAIN DetectedEnv = {"ANTHROPIC_BASE_URL", "ANTHROPIC_MODEL"}
  /\ DetectedEnv["ANTHROPIC_BASE_URL"] = JStr("https://api.moonshot.ai/anthropic")

\* C20: detectCurrentConfig never raises; for a stored base URL that starts
\* with no registered base URL (its /anthropic suffix removed) it returns
\* provider and regionId undefined; and a regionId it returns is the id of a
\* region of the returned provider whose baseUrl is the stored base URL.
C20_DetectNeverRaises ==
  last.op = "detect" =>
    /\ last.ok
    /\ \/ ~last.det.baseUrl.defined
       \/ LET url == last.det.baseUrl.val.str
              Matches(p) == \E r \in 1..Len(providers[p].regions) :
                              StartsWith(url, StripAnthropicSuffix(providers[p].regions[r].baseUrl))
          IN /\ (\A p \in 1..Len(providers) : ~Matches(p)) =>
                  (last.det.providerId = Undefined /\ last.det.regionId = Undefined)
             /\ last.det.regionId # Undefined =>
                  \E p \in 1..Len(providers) :
                    /\ providers[p].id = last.det.providerId
                    /\ \E r \in 1..Len(providers[p].regions) :
                         /\ providers[p].regions[r].id = last.det.regionId
                         /\ providers[p].regions[r].baseUrl = url

\* The settings file the call found exists and JSON.parse rejects it.
FoundUnparseable == last.pre.exists /\ ~last.pre.parseable

\* C21: a settings file that exists but cannot be parsed counts as the empty
\* document and nothing is raised: a loadProviderConfig with a region of the
\* provider succeeds and writes a document with no key of its own but env
\* and model, env holding only what the call sets; detectCurrentConfig
\* returns normally with everything undefined.
C21_UnparseableIsEmpty ==
  /\ (last.op = "load" /\ FoundUnparseable /\ findRegion(LoadedProvider, last.regionId) # 0) =>
       /\ last.ok
       /\ IsDocument(settingsFile) /\ settingsFile.layout = "indent2"
       /\ settingsFile.doc.rest = EmptyObject
       /\ settingsFile.doc.hasEnv /\ settingsFile.doc.hasModel
       /\ DOMAIN settingsFile.doc.env =
            {"ANTHROPIC_AUTH_TOKEN", "ANTHROPIC_BASE_URL", "API_TIMEOUT_MS",
             "CLAUDE_CODE_DISABLE_NONESSENTIAL_TRAFFIC"}
              \cup DOMAIN getEnvOverrides(LoadedProvider, last.modelId)
       /\ settingsFile.doc.env["ANTHROPIC_AUTH_TOKEN"] = JStr(last.apiKey)
       /\ settingsFile.doc.env["ANTHROPIC_BASE_URL"] = JStr(LoadedRegion.baseUrl)
  /\ (last.op = "detect" /\ FoundUnparseable) =>
       (last.ok /\ last.det = NotDetected)

\* C21 witness: minimax was applied to an unparseable settings file.
C21_Witness ==
  /\ Loaded /\ last.pre = Unparseable /\ last.providerId = "minimax"
  /\ last.regionId = "china" /\ last.apiKey = "sk-test"
  /\ settingsFile.doc.env["ANTHROPIC_BASE_URL"] = JStr("https://api.minimaxi.com/anthropic")
  /\ settingsFile.doc.rest = EmptyObject

\* The four keys loadProviderConfig sets itself.
BaseEnvKeys ==
  { "ANTHROPIC_AUTH_TOKEN", "ANTHROPIC_BASE_URL", "API_TIMEOUT_MS",
    "CLAUDE_CODE_DISABLE_NONESSENTIAL_TRAFFIC" }

\* C28: the keys getEnvOverrides returns for the provider and model of a
\* loadProviderConfig are all in MANAGED_ENV_KEYS and none is one of the
\* four base keys, so the saved credential and base URL are the call's, and
\* an unloadProviderConfig right after leaves only env keys that the
\* document had, unmanaged, before the load.
C28_OverridesManaged ==
  /\ Loaded =>
       /\ DOMAIN getEnvOverrides(LoadedProvider, last.modelId) \subseteq MANAGED_ENV_KEYS
       /\ DOMAIN getEnvOverrides(LoadedProvider, last.modelId) \cap BaseEnvKeys = {}
       /\ settingsFile.doc.env["ANTHROPIC_AUTH_TOKEN"] = JStr(last.apiKey)
       /\ settingsFile.doc.env["ANTHROPIC_BASE_URL"] = JStr(LoadedRegion.baseUrl)
  /\ (last.op = "unload" /\ prev.op = "load" /\ prev.ok) =>
       LET D == getSettings(prev.pre)
           N == getSettings(settingsFile)
       IN N.hasEnv => (D.hasEnv /\ DOMAIN N.env \subseteq (DOMAIN D.env) \ MANAGED_ENV_KEYS)

\* C28 witness: kimi, with the most overrides, was applied to the document
\* with HTTP_PROXY and unloaded again; only HTTP_PROXY is left in env.
C28_Witness ==
  /\ last.op = "unload" /\ prev.op = "load" /\ prev.ok /\ prev.providerId = "kimi"
  /\ prev.pre = UserFile(RichDoc)
  /\ DOMAIN settingsFile.doc.env = {"HTTP_PROXY"}

\* C25: a loadProviderConfig(x) right after a loadProviderConfig(y), both
\* with a region of their provider, leaves the settings document that
\* loadProviderConfig(x) alone makes of the document y found; with x = y the
\* second call changes nothing.
C25_ApplyAbsorbs ==
  (last.op = "load" /\ last.ok /\ prev.op = "load" /\ prev.ok) =>
    /\ IsDocument(settingsFile)
    /\ settingsFile.doc =
         applyDoc(LoadedProvider, LoadedRegion, last.modelId, last.apiKey,
                  getSettings(prev.pre))
    /\ (last.providerId = prev.providerId /\ last.regionId = prev.regionId
          /\ last.modelId = prev.modelId /\ last.apiKey = prev.apiKey) =>
         settingsFile = last.pre

\* C25 witness: zhipu (no overrides) applied after kimi (five overrides) on
\* the document with HTTP_PROXY and theme: kimi's keys are gone.
C25_Witness ==
  /\ last.op = "load" /\ last.ok /\ prev.op = "load" /\ prev.ok
  /\ prev.providerId = "kimi" /\ last.providerId = "zhipu" /\ prev.pre = UserFile(RichDoc)
  /\ "CLAUDE_CODE_SUBAGENT_MODEL" \notin DOMAIN settingsFile.doc.env
  /\ "HTTP_PROXY" \in DOMAIN settingsFile.doc.env
  /\ settingsFile.doc.model = JStr(last.modelId)

\* C24: for every backup createBackup wrote at time T, the entry listBackups
\* returns for it has a valid date, equal to T to the second.
C24_DateRoundTrip ==
  listed.called =>
    \A t \in DOMAIN listed.dir :
      LET date == listed.dates[ListedAt(BackupName(t))]
      IN date.valid /\ date.time \div 1000 = (Epoch + t) \div 1000

\* The registry entry of the local config's provider, 0 when there is none.
ConfiguredProvider == getProvider(localConfig.provider)

\* C26: from the default local config, after any wizard actions, provider,
\* region and model are all unset, or provider is a registered id, region the
\* id of one of its regions and model the id of one of its models.
C26_LocalConfigConsistent ==
  \/ /\ localConfig.provider = Undefined
     /\ localConfig.region = Undefined
     /\ localConfig.model = Undefined
  \/ /\ ConfiguredProvider # 0
     /\ \E i \in 1..Len(providers[ConfiguredProvider].regions) :
          providers[ConfiguredProvider].regions[i].id = localConfig.region
     /\ \E i \in 1..Len(providers[ConfiguredProvider].models) :
          providers[ConfiguredProvider].models[i] = localConfig.model

\* configProvider has run twice, after another action, and the local config
\* holds a complete choice.
C26_Witness ==
  /\ last.op = "configProvider" /\ prev.op = "configProvider"
  /\ localConfig.provider = "kimi" /\ localConfig.region = "global"
  /\ localConfig.model = "kimi-k2-turbo-preview"
  /\ nops = 3

\* C22: validateApiKey classifies what fetch did (401 and 403 are
\* invalid_api_key, a timeout and a transport failure are network_error, a
\* 2xx status is valid); configApiKey leaves the local config as it was on
\* invalid_api_key and stores the trimmed key on a network failure or success.
C22_ValidationOutcomes ==
  (last.op = "configApiKey" /\ validation.asked) =>
    /\ validation.result \in
         { ValidationResult(TRUE, Undefined), ValidationResult(FALSE, "invalid_api_key"),
           ValidationResult(FALSE, "network_error"), ValidationResult(FALSE, "unknown_error") }
    /\ (validation.response.kind = "http" /\ validation.response.status \in {401, 403})
         => validation.result = ValidationResult(FALSE, "invalid_api_key")
    /\ validation.response.kind \in {"abort", "error"}
         => validation.result = ValidationResult(FALSE, "network_error")
    /\ (validation.response.kind = "http" /\ validation.response.status = 200)
         => validation.result.valid
    /\ validation.result.error = "invalid_api_key"
         => localConfig.api_key = validation.before
    /\ (validation.result.valid \/ validation.result.error = "network_error")
         => localConfig.api_key = Trim(validation.entered)

\* A stored key survives a second configApiKey whose request got 403, after a
\* first one that timed out had stored the padded input trimmed.
C22_Witness ==
  /\ last.op = "configApiKey" /\ validation.asked
  /\ validation.response = Response("http", 403) /\ validation.entered = "sk-test"
  /\ validation.before = "sk-new" /\ localConfig.api_key = "sk-new"
  /\ prev.op = "configApiKey"

\* provider, region, model and api_key of the local config are all set.
AllFourSet ==
  \A k \in {"provider", "region", "model", "api_key"} :
    localConfig[k] # Undefined /\ localConfig[k] # ""

\* C23: a detectCurrentConfig call leaves the settings file, the backups,
\* the onboarding document and the local config as they were.
C23_DetectReadOnly ==
  [][(nops' = nops + 1 /\ last'.op = "detect") =>
       UNCHANGED << settingsFile, backupDir, configFile, localConfig >>]_vars

\* detectCurrentConfig has run on an applied configuration: the four are
\* what applyConfig left.
C23_Witness ==
  /\ last.op = "detect" /\ last.det.providerId = localConfig.provider
  /\ prev.op = "load" /\ prev.ok
  /\ settingsFile = last.pre /\ DOMAIN backupDir = {0} /\ configFile # NoConfig
  /\ AllFourSet

\* C27: applyConfig changes the settings file, the backups or the onboarding
\* document only when provider, region, model and api_key are all set.
C27_ApplyNeedsAllFour ==
  [][(nops' = nops + 1 /\ last'.op \in {"applyConfig", "load"} /\ ~AllFourSet)
       => UNCHANGED << settingsFile, backupDir, configFile >>]_vars

\* applyConfig after `ccs auth revoke` on a complete local config: nothing
\* was written.
C27_Witness ==
  /\ last.op = "applyConfig" /\ last.error = "missing_config"
  /\ prev.op = "authRevoke"
  /\ ~Unset(localConfig.provider) /\ ~Unset(localConfig.region)
  /\ ~Unset(localConfig.model) /\ validation.before = Undefined
  /\ validation.asked /\ validation.result.valid
  /\ DOMAIN backupDir = {} /\ settingsFile = initial /\ configFile = NoConfig

====
